---- MODULE Spec2Model ----
(***************************************************************************)
(* A model of evaluate.py: the evaluation loop (evaluate), the top-k       *)
(* counter (correct_count), the confusion-matrix renderer                  *)
(* (draw_confusion_matrix) and the orchestrator (main).                    *)
(*                                                                         *)
(* Real numbers are exact rationals <<n, d>> in lowest terms (d > 0);      *)
(* <<0, 0>> stands for a value that was never computed.  Tensors are       *)
(* sequences (1-based positions), class indices are 0-based as in the      *)
(* code.                                                                   *)
(***************************************************************************)
EXTENDS Integers, Sequences, FiniteSets

\* ------------------------------------------------------------ bounds
\* Largest number of samples in one batch (batch_size in the code).
MaxBatch == 2
\* Largest number of samples in one split.
MaxSamples == 2
\* Largest crop count of the multi-crop input [bs, ncrops, c, h, w].
MaxCrops == 2
\* Number of distinct images the splits are drawn from.
NImages == 2

\* ------------------------------------------------------------ constants
\* Number of classes: the length of label_name at every call site of main.
NClasses == 4
\* main evaluates three splits: train, val, test.
NSplits == 3
\* dpi of the saved images.
Dpi == 300

Classes == 0 .. (NClasses - 1)
Images == 0 .. (NImages - 1)

\* ------------------------------------------------------------ rationals
RECURSIVE GCD(_, _)
GCD(a, b) == IF b = 0 THEN a ELSE GCD(b, a % b)

NaN == <<0, 0>>
Rat(n, d) == LET g == GCD(n, d) IN <<n \div g, d \div g>>
Zero == <<0, 1>>
One == <<1, 1>>
RatInt(n) == <<n, 1>>
RatAdd(a, b) == Rat(a[1] * b[2] + b[1] * a[2], a[2] * b[2])
\* a - b, for a >= b
RatSub(a, b) == Rat(a[1] * b[2] - b[1] * a[2], a[2] * b[2])
RatLess(a, b) == a[1] * b[2] < b[1] * a[2]
RatLeq(a, b) == a[1] * b[2] <= b[1] * a[2]
\* a / k (true division), for k > 0
RatDivInt(a, k) == Rat(a[1], a[2] * k)

RECURSIVE SumRat(_)
SumRat(s) == IF s = <<>> THEN Zero ELSE RatAdd(Head(s), SumRat(Tail(s)))

RECURSIVE SumInt(_)
SumInt(s) == IF s = <<>> THEN 0 ELSE Head(s) + SumInt(Tail(s))

\* ------------------------------------------------------------ the model (net)
\* The trained classifier: a fixed function from an image to one score per
\* class.  The table is cycled when there are more images than rows.
NetTable ==
  << <<3, 1, 2, 0>>,
     <<1, 3, 0, 2>>,
     <<2, 2, 0, 1>>,
     <<0, 1, 3, 3>> >>

Net(img) == [c \in Classes |-> RatInt(NetTable[(img % Len(NetTable)) + 1][c + 1])]

\* net(inputs) on a batch of images [n, c, h, w]: one score row per image.
NetBatch(imgs) == [i \in 1 .. Len(imgs) |-> Net(imgs[i])]

\* ------------------------------------------------------------ forward pass
\* inputs.view(-1, c, h, w) on [bs, ncrops, c, h, w]: row-major flattening.
ViewFlat(inputs, bs, nc) ==
  [p \in 1 .. (bs * nc) |-> inputs[((p - 1) \div nc) + 1][((p - 1) % nc) + 1]]

\* (a reshape that takes the crop axis for the leading one)
ViewCropsStrided(flat, bs, nc) ==
  [b \in 1 .. bs |-> [j \in 1 .. nc |-> flat[(j - 1) * bs + b]]]

\* outputs.view(bs, ncrops, -1) on [bs*ncrops, n_classes].
ViewCrops(flat, bs, nc) ==
  [b \in 1 .. bs |-> [j \in 1 .. nc |-> flat[(b - 1) * nc + j]]]

\* torch.sum(outputs, dim=1) / ncrops
CropMean(out3, bs, nc) ==
  [b \in 1 .. bs |->
     [c \in Classes |->
        RatDivInt(SumRat([j \in 1 .. nc |-> out3[b][j][c]]), nc)]]

\* The branch on Ncrop: the scores [bs, n_classes] of one batch.
\* (every intermediate tensor is computed once and bound to a name)
Forward(flag, inputs) ==
  IF flag
  THEN LET bs == Len(inputs)
           nc == Len(inputs[1])
       IN CHOOSE out \in
            {CropMean(out3, bs, nc) :
               out3 \in {ViewCrops(flat, bs, nc) :
                           flat \in {NetBatch(ViewFlat(inputs, bs, nc))}}} : TRUE
  ELSE NetBatch(inputs)

\* ------------------------------------------------------------ top-k, arg-max
\* output.topk(maxk, 1, True, True): the indices of the maxk largest scores
\* of a row, largest first.  The order among equal scores is not specified
\* by the library; ties is the order the build uses ("first": lower index
\* first, "last": higher index first).
Before(row, ties, a, b) ==
  \/ RatLess(row[b], row[a])
  \/ /\ row[a] = row[b]
     /\ IF ties = "first" THEN a < b ELSE a > b

TopK(row, k, ties) ==
  [r \in 1 .. k |->
     CHOOSE c \in Classes :
       Cardinality({x \in Classes : Before(row, ties, x, c)}) = r - 1]

\* torch.max(outputs.data, 1): the index of the first maximal value of a row.
TorchMax(row) ==
  CHOOSE c \in Classes :
    /\ \A x \in Classes : RatLeq(row[x], row[c])
    /\ \A x \in Classes : (x < c) => RatLess(row[x], row[c])

MaxOf(S) == CHOOSE m \in S : \A x \in S : x <= m

\* (correct[k-1:k]: only the k-th row)
OnlyRowK(k) == {k}
\* (correct[:maxk]: every row, whatever k)
AllRows(k) == 1 .. 2

\* correct[:k].contiguous().view(-1).float().sum(0): the rows of correct
\* that count for k.
CorrectRows(k) == 1 .. k

\* correct_count(output, target, topk): for each k the number of samples
\* whose target is among the first k rows of the transposed top-maxk indices.
correct_count(output, target, topk, ties) ==
  LET maxk == MaxOf({topk[i] : i \in 1 .. Len(topk)})
      bs == Len(output)
      pred == [b \in 1 .. bs |-> TopK(output[b], maxk, ties)]
      predT == [r \in 1 .. maxk |-> [b \in 1 .. bs |-> pred[b][r]]]
      correct == [r \in 1 .. maxk |-> [b \in 1 .. bs |-> predT[r][b] = target[b]]]
  IN [i \in 1 .. Len(topk) |->
        Cardinality({<<r, b>> \in (CorrectRows(topk[i]) \cap (1 .. maxk)) \X (1 .. bs) :
                       correct[r][b]})]

\* ------------------------------------------------------------ loss
\* loss_fn = nn.CrossEntropyLoss(): the mean over the batch of a per-sample
\* loss.  The per-sample term (-log softmax) is not a rational; it is
\* modelled by a per-sample loss of the same shape: positive, and smallest
\* when the target has the highest score.
SampleLoss(row, y) == RatAdd(One, RatSub(row[TorchMax(row)], row[y]))

loss_fn(output, target) ==
  RatDivInt(SumRat([b \in 1 .. Len(target) |-> SampleLoss(output[b], target[b])]),
            Len(target))

\* ------------------------------------------------------------ evaluate: one batch
\* (the new items put in front of the list)
Prepend(list, items) == items \o list

\* y_pred.extend(pred.item() for pred in preds)
Extend(list, items) == list \o items

\* One iteration of the for loop over the dataloader, from the forward pass
\* on: the loss, the counts, the arg-max and the lists.
BatchUpdate(st, labels, outs, ties) ==
  LET loss == loss_fn(outs, labels)
      counts == correct_count(outs, labels, <<1, 2>>, ties)
      preds == [b \in 1 .. Len(outs) |-> TorchMax(outs[b])]
  IN [loss_tr |-> RatAdd(st.loss_tr, loss),
      n_samples |-> st.n_samples + Len(labels),
      y_pred |-> Extend(st.y_pred, preds),
      y_gt |-> Extend(st.y_gt, labels),
      correct_count1 |-> st.correct_count1 + counts[1],
      correct_count2 |-> st.correct_count2 + counts[2]]

\* One iteration of the for loop over the dataloader (outputs is computed
\* once and bound to outs).
BatchStep(st, data, flag, ties) ==
  CHOOSE new \in {BatchUpdate(st, data.labels, outs, ties) :
                    outs \in {Forward(flag, data.inputs)}} : TRUE

\* ------------------------------------------------------------ sklearn metrics
\* The labels that appear in y_true or y_pred (labels=None).
LabelSet(y_true, y_pred) ==
  {y_true[i] : i \in 1 .. Len(y_true)} \cup {y_pred[i] : i \in 1 .. Len(y_pred)}

\* ... in sorted order.
SortedLabels(y_true, y_pred) ==
  LET L == LabelSet(y_true, y_pred)
  IN [p \in 1 .. Cardinality(L) |->
        CHOOSE l \in L : Cardinality({x \in L : x < l}) = p - 1]

\* confusion_matrix(y_true, y_pred): one row and one column per label that
\* appears, in sorted order; rows and columns are positions 0 .. n-1.
CountsOver(labels, y_true, y_pred) ==
  [a \in 0 .. (Len(labels) - 1) |->
     [b \in 0 .. (Len(labels) - 1) |->
        Cardinality({i \in 1 .. Len(y_true) :
                       y_true[i] = labels[a + 1] /\ y_pred[i] = labels[b + 1]})]]

confusion_matrix(y_true, y_pred) ==
  CHOOSE cm \in {CountsOver(labels, y_true, y_pred) :
                   labels \in {SortedLabels(y_true, y_pred)}} : TRUE

CmSize(cm) == Cardinality(DOMAIN cm)

\* x / y with 0 where y = 0 (nan_to_num, zero_division)
Ratio(x, y) == IF y = 0 THEN Zero ELSE Rat(x, y)

\* confusion_matrix(..., normalize='true'): every row divided by its sum.
RowNormalized(cm) ==
  [a \in DOMAIN cm |->
     [b \in DOMAIN cm |->
        Ratio(cm[a][b], SumInt([q \in 1 .. CmSize(cm) |-> cm[a][q - 1]]))]]

confusion_matrix_true(y_true, y_pred) ==
  CHOOSE nm \in {RowNormalized(cm) : cm \in {confusion_matrix(y_true, y_pred)}} : TRUE

TP(y_true, y_pred) ==
  Cardinality({i \in 1 .. Len(y_true) : y_pred[i] = y_true[i]})
\* summed over the labels: every wrong prediction is one false positive
\* (for the predicted label) and one false negative (for the true label)
FP(y_true, y_pred) ==
  SumInt([p \in 1 .. Len(SortedLabels(y_true, y_pred)) |->
     Cardinality({i \in 1 .. Len(y_true) :
        y_pred[i] = SortedLabels(y_true, y_pred)[p] /\ y_true[i] # y_pred[i]})])
FN(y_true, y_pred) ==
  SumInt([p \in 1 .. Len(SortedLabels(y_true, y_pred)) |->
     Cardinality({i \in 1 .. Len(y_true) :
        y_true[i] = SortedLabels(y_true, y_pred)[p] /\ y_true[i] # y_pred[i]})])

precision_score(y_true, y_pred) ==
  Ratio(TP(y_true, y_pred), TP(y_true, y_pred) + FP(y_true, y_pred))
recall_score(y_true, y_pred) ==
  Ratio(TP(y_true, y_pred), TP(y_true, y_pred) + FN(y_true, y_pred))
f1_score(y_true, y_pred) ==
  Ratio(2 * TP(y_true, y_pred),
        2 * TP(y_true, y_pred) + FP(y_true, y_pred) + FN(y_true, y_pred))

\* ------------------------------------------------------------ evaluate: the end
\* (a division that gives nan instead of raising)
NeverRaises(n) == FALSE

\* 100 * correct_count1 / n_samples with n_samples = 0.0 raises.
ZeroDivisionError(n) == n = 0

Divide(x, n) == IF n = 0 THEN NaN ELSE RatDivInt(x, n)

\* (the accuracies as fractions, not per cent)
MetricsFraction(st) ==
  [acc1 |-> Divide(RatInt(st.correct_count1), st.n_samples),
   acc2 |-> Divide(RatInt(st.correct_count2), st.n_samples),
   loss |-> Divide(st.loss_tr, st.n_samples),
   precision |-> precision_score(st.y_gt, st.y_pred),
   recall |-> recall_score(st.y_gt, st.y_pred),
   f1 |-> f1_score(st.y_gt, st.y_pred),
   cm |-> confusion_matrix(st.y_gt, st.y_pred)]

\* The metrics block evaluate prints.
Metrics(st) ==
  [acc1 |-> Divide(RatInt(100 * st.correct_count1), st.n_samples),
   acc2 |-> Divide(RatInt(100 * st.correct_count2), st.n_samples),
   loss |-> Divide(st.loss_tr, st.n_samples),
   precision |-> precision_score(st.y_gt, st.y_pred),
   recall |-> recall_score(st.y_gt, st.y_pred),
   f1 |-> f1_score(st.y_gt, st.y_pred),
   cm |-> confusion_matrix(st.y_gt, st.y_pred)]

\* ------------------------------------------------------------ the renderer
label_name == <<"Angry", "Happy", "Sad", "Neutral">>

\* float(format('%.2f' % x)): x rounded to hundredths, halves to even.
Round2(x) ==
  LET q == (100 * x[1]) \div x[2]
      r == (100 * x[1]) % x[2]
      up == (2 * r > x[2]) \/ (2 * r = x[2] /\ q % 2 = 1)
  IN Rat(IF up THEN q + 1 ELSE q, 100)

\* The implicit pyplot figure.
EmptyCanvas == [images |-> <<>>, title |-> "", colorbars |-> 0, texts |-> <<>>]

\* (a reset that leaves the figure as it is)
Kept(cv) == cv

\* plt.clf()
clf(cv) == EmptyCanvas

\* The cells the double loop overlays before it ends or cm[j, i] is out of
\* range: i is the outer index, j the inner one.
CellCount(n, len) == IF n >= len THEN len * len ELSE n

IndexError(n, len) == n < len

\* draw_confusion_matrix from imshow up to savefig: the canvas after the
\* drawing calls.
Draw(cv, cm, names, title) ==
  LET len == Len(names)
      cells == CellCount(CmSize(cm), len)
      text(p) == LET i == (p - 1) \div len
                     j == (p - 1) % len
                 IN [x |-> i, y |-> j, value |-> Round2(cm[j][i]),
                     color |-> IF i = j THEN "white" ELSE "black"]
  IN [images |-> Append(cv.images, cm),
      title |-> title,
      colorbars |-> cv.colorbars + 1,
      texts |-> cv.texts \o [p \in 1 .. cells |-> text(p)]]

\* plt.savefig(pdf_save_path, bbox_inches='tight', dpi=dpi): the file, with
\* what the figure held when it was saved.
SavedFile(path, cv, dpi) ==
  [path |-> path, dpi |-> dpi, title |-> cv.title, images |-> Len(cv.images),
   colorbars |-> cv.colorbars, texts |-> Len(cv.texts)]

\* ------------------------------------------------------------ main's call sites
SplitName == <<"Train", "Val", "Test">>
Title ==
  <<"Confusion Matrix on Training Set",
    "Confusion Matrix on Val Set",
    "Confusion Matrix on Test Set">>
SavePath ==
  <<"Confusion Matrix on Training Set.png",
    "Confusion Matrix on Val Set.png",
    "Confusion Matrix on Test Set.png">>

\* ------------------------------------------------------------ state
VARIABLES
  Ncrop,      \* args.Ncrop: the augmentation flag of the run
  ncrops,     \* the crop count of every input the loaders yield (0: no crop axis)
  topk_ties,  \* the order topk gives equal scores in this build
  pc,         \* where main is: "print", "evaluate", "loop", "draw", "clf", "done", "failed"
  split,      \* the split main is at: 1 train, 2 val, 3 test
  ev,         \* evaluate's locals
  outputs,    \* evaluate's outputs of the last batch
  batches,    \* the batches the dataloader has yielded in this call of evaluate
  report,     \* the metrics block this call of evaluate has printed
  events,     \* what the run has done so far, in order
  canvas,     \* the implicit pyplot figure
  files,      \* the images saved, in order: path, dpi and what the figure held
  error       \* the uncaught exception that ended the run, "" if none

vars ==
  <<Ncrop, ncrops, topk_ties, pc, split, ev, outputs, batches, report, events,
    canvas, files, error>>

config == <<Ncrop, ncrops, topk_ties>>

\* One input of a batch: ncrops images with the flag on, one image without.
Inputs == IF Ncrop THEN [1 .. ncrops -> Images] ELSE Images

\* The sizes of the batch a dataloader can yield when n samples are left in
\* the split.
BatchSizes(n) == 1 .. (IF n < MaxBatch THEN n ELSE MaxBatch)

NoReport == [acc1 |-> NaN, acc2 |-> NaN, loss |-> NaN, precision |-> NaN,
             recall |-> NaN, f1 |-> NaN, cm |-> <<>>]

Event(op, arg) == <<op, arg>>

\* (lists that outlive the call: the new call starts from the old ones)
StaleLists ==
  [loss_tr |-> Zero, n_samples |-> 0, y_pred |-> ev.y_pred, y_gt |-> ev.y_gt,
   correct_count1 |-> 0, correct_count2 |-> 0]

\* evaluate's locals before the loop.
InitLocals ==
  [loss_tr |-> Zero, n_samples |-> 0, y_pred |-> <<>>, y_gt |-> <<>>,
   correct_count1 |-> 0, correct_count2 |-> 0]

Init ==
  /\ Ncrop \in BOOLEAN
  /\ ncrops \in (IF Ncrop THEN 1 .. MaxCrops ELSE {0})
  /\ topk_ties \in {"first", "last"}
  /\ pc = "print"
  /\ split = 1
  /\ ev = [loss_tr |-> Zero, n_samples |-> 0, y_pred |-> <<>>, y_gt |-> <<>>,
           correct_count1 |-> 0, correct_count2 |-> 0]
  /\ outputs = <<>>
  /\ batches = <<>>
  /\ report = NoReport
  /\ events = <<>>
  /\ canvas = EmptyCanvas
  /\ files = <<>>
  /\ error = ""

\* ------------------------------------------------------------ main
\* print("Train") / print("Val") / print("Test")
PrintHeader ==
  /\ pc = "print"
  /\ events' = Append(events, Event("print", SplitName[split]))
  /\ pc' = "evaluate"
  /\ UNCHANGED <<config, split, ev, outputs, batches, report, canvas, files, error>>

\* evaluate is called: net.eval() and the locals before the loop.
EvaluateBegin ==
  /\ pc = "evaluate"
  /\ ev' = InitLocals
  /\ outputs' = <<>>
  /\ batches' = <<>>
  /\ report' = NoReport
  /\ events' = Append(events, Event("evaluate", SplitName[split]))
  /\ pc' = "loop"
  /\ UNCHANGED <<config, split, canvas, files, error>>

\* The dataloader yields one more batch: one iteration of the loop.
EvaluateBatch ==
  /\ pc = "loop"
  /\ \E bs \in BatchSizes(MaxSamples - ev.n_samples) :
       \E inputs \in [1 .. bs -> Inputs], labels \in [1 .. bs -> Classes] :
         \E outs \in {Forward(Ncrop, inputs)} :
           /\ ev' = BatchUpdate(ev, labels, outs, topk_ties)
           /\ outputs' = outs
           /\ batches' = Append(batches, [inputs |-> inputs, labels |-> labels])
  /\ UNCHANGED <<config, pc, split, report, events, canvas, files, error>>

\* The dataloader is exhausted: the metrics are computed and printed and the
\* two label lists returned to main.
EvaluateReturn ==
  /\ pc = "loop"
  /\ ~ZeroDivisionError(ev.n_samples)
  /\ report' = Metrics(ev)
  /\ events' = Append(events, Event("metrics", SplitName[split]))
  /\ pc' = "draw"
  /\ UNCHANGED <<config, split, ev, outputs, batches, canvas, files, error>>

\* The dataloader is exhausted and n_samples is 0.0: the division of the
\* first accuracy raises, nothing is printed, main does not catch it.
EvaluateRaise ==
  /\ pc = "loop"
  /\ ZeroDivisionError(ev.n_samples)
  /\ error' = "ZeroDivisionError"
  /\ pc' = "failed"
  /\ UNCHANGED <<config, split, ev, outputs, batches, report, events, canvas, files>>

\* draw_confusion_matrix draws every cell and saves the figure.
DrawAndSave ==
  /\ pc = "draw"
  /\ \E cm \in {confusion_matrix_true(ev.y_gt, ev.y_pred)} :
       /\ ~IndexError(CmSize(cm), Len(label_name))
       /\ canvas' = Draw(canvas, cm, label_name, Title[split])
  /\ files' = Append(files, SavedFile(SavePath[split], canvas', Dpi))
  /\ events' = Append(events, Event("savefig", SavePath[split]))
  /\ pc' = IF split = NSplits THEN "done" ELSE "clf"
  /\ UNCHANGED <<config, split, ev, outputs, batches, report, error>>

\* draw_confusion_matrix reads a cell the matrix does not have: cm[j, i]
\* raises before savefig, main does not catch it.
DrawRaise ==
  /\ pc = "draw"
  /\ \E cm \in {confusion_matrix_true(ev.y_gt, ev.y_pred)} :
       /\ IndexError(CmSize(cm), Len(label_name))
       /\ canvas' = Draw(canvas, cm, label_name, Title[split])
  /\ error' = "IndexError"
  /\ pc' = "failed"
  /\ UNCHANGED <<config, split, ev, outputs, batches, report, events, files>>

\* plt.clf() between two splits
ClearFigure ==
  /\ pc = "clf"
  /\ canvas' = clf(canvas)
  /\ events' = Append(events, Event("clf", ""))
  /\ split' = split + 1
  /\ pc' = "print"
  /\ UNCHANGED <<config, ev, outputs, batches, report, files, error>>

Next ==
  \/ PrintHeader
  \/ EvaluateBegin
  \/ EvaluateBatch
  \/ EvaluateReturn
  \/ EvaluateRaise
  \/ DrawAndSave
  \/ DrawRaise
  \/ ClearFigure

Spec == Init /\ [][Next]_vars

\* ============================================================ properties
\* What the properties are stated with: the samples of this call of
\* evaluate in iteration order, and each sample's scores computed from its
\* own crops alone.
RECURSIVE SamplesOf(_)
SamplesOf(bb) ==
  IF bb = <<>> THEN <<>>
  ELSE [i \in 1 .. Len(Head(bb).labels) |->
          [label |-> Head(bb).labels[i], input |-> Head(bb).inputs[i]]]
       \o SamplesOf(Tail(bb))

MeanOfCrops(crops) ==
  [c \in Classes |->
     RatDivInt(SumRat([j \in 1 .. Len(crops) |-> Net(crops[j])[c]]), Len(crops))]

SampleScores(input) == IF Ncrop THEN MeanOfCrops(input) ELSE Net(input)

\* The samples with their scores.
Scored ==
  LET S == SamplesOf(batches)
  IN [i \in 1 .. Len(S) |-> [label |-> S[i].label, scores |-> SampleScores(S[i].input)]]

\* The number of classes topk puts before class y.
RankOf(row, y) == Cardinality({x \in Classes : Before(row, topk_ties, x, y)})

\* No two classes share the highest score of the row.
NoTopTie(row) ==
  \A x \in Classes, y \in Classes :
    (x # y /\ row[x] = row[y]) => \E z \in Classes : RatLess(row[x], row[z])

Matches(a, b) == Cardinality({i \in 1 .. Len(a) : a[i] = b[i]})

InCall == pc \in {"loop", "draw"}
Printed == report # NoReport

Reset ==
  [loss_tr |-> Zero, n_samples |-> 0, y_pred |-> <<>>, y_gt |-> <<>>,
   correct_count1 |-> 0, correct_count2 |-> 0]

\* evaluate as a function of the batches alone, from counters at zero.
RECURSIVE Fold(_, _)
Fold(st, bb) ==
  IF bb = <<>> THEN st
  ELSE Fold(BatchStep(st, Head(bb), Ncrop, topk_ties), Tail(bb))

\* ------------------------------------------------------------ C1
\* C1: after every batch the cumulative top-1 correct count is at most the
\* cumulative top-2 correct count, and the printed top-1 accuracy is at most
\* the printed top-2 accuracy.
C1_Top1LeTop2 ==
  /\ ev.correct_count1 <= ev.correct_count2
  /\ Printed => RatLeq(report.acc1, report.acc2)

C1_Witness ==
  /\ Printed
  /\ report.acc1 = <<50, 1>>
  /\ report.acc2 = <<100, 1>>

\* ------------------------------------------------------------ C2
\* C2: the two label lists and the sample counter have the length of the
\* samples seen so far, every value is a class, and entry i of each list is
\* the label, respectively the arg-max of the scores, of the i-th sample in
\* iteration order.
C2_Aligned ==
  InCall =>
    \E S \in {Scored} :
      /\ Len(ev.y_gt) = Len(S)
      /\ Len(ev.y_pred) = Len(S)
      /\ ev.n_samples = Len(S)
      /\ \A i \in 1 .. Len(S) :
           /\ ev.y_gt[i] = S[i].label
           /\ ev.y_pred[i] = TorchMax(S[i].scores)
           /\ ev.y_gt[i] \in Classes
           /\ ev.y_pred[i] \in Classes

C2_Witness ==
  /\ pc = "draw"
  /\ Len(batches) = 2
  /\ ev.n_samples = 2
  /\ ev.y_gt[1] # ev.y_gt[2]
  /\ ev.y_pred[1] # ev.y_pred[2]

\* ------------------------------------------------------------ C3
ExpectedEvents ==
  << <<"print", "Train">>, <<"evaluate", "Train">>,
     <<"savefig", "Confusion Matrix on Training Set.png">>, <<"clf", "">>,
     <<"print", "Val">>, <<"evaluate", "Val">>,
     <<"savefig", "Confusion Matrix on Val Set.png">>, <<"clf", "">>,
     <<"print", "Test">>, <<"evaluate", "Test">>,
     <<"savefig", "Confusion Matrix on Test Set.png">> >>

IsMainEvent(e) == e[1] # "metrics"
MainEvents == SelectSeq(events, IsMainEvent)
IsPrefix(a, b) == Len(a) <= Len(b) /\ SubSeq(b, 1, Len(a)) = a

\* A saved image that holds one render and nothing else.
CleanFile(i) ==
  [path |-> SavePath[i], dpi |-> Dpi, title |-> Title[i], images |-> 1,
   colorbars |-> 1, texts |-> Len(label_name) * Len(label_name)]

\* C3: in a run without failure the events follow the order header,
\* evaluate, save, clear for train, val, test (no clear after test); a
\* finished run has done all of them; every render starts on an empty
\* figure and every saved image holds exactly its own render.
C3_Order ==
  (error = "") =>
    /\ IsPrefix(MainEvents, ExpectedEvents)
    /\ (pc = "done") => (MainEvents = ExpectedEvents)
    /\ (pc = "draw") => (canvas = EmptyCanvas)
    /\ \A i \in 1 .. Len(files) : files[i] = CleanFile(i)

C3_Witness ==
  /\ pc = "done"
  /\ Len(files) = NSplits

\* ------------------------------------------------------------ C4
DrawAttempted == pc \in {"clf", "done"} \/ error = "IndexError"

\* C4: whenever the renderer has run on the lists of the current split, its
\* matrix has one row and one column per class name, every cell has been
\* overlaid and the image of the split has been saved.
C4_SquareAndSaved ==
  DrawAttempted =>
    /\ CmSize(confusion_matrix_true(ev.y_gt, ev.y_pred)) = Len(label_name)
    /\ Len(canvas.texts) = Len(label_name) * Len(label_name)
    /\ \E i \in 1 .. Len(files) : files[i].path = SavePath[split]

\* ------------------------------------------------------------ C5
C5_State ==
  /\ (batches = <<>> /\ pc \notin {"print", "evaluate", "loop"}) =>
       /\ pc = "failed"
       /\ error = "ZeroDivisionError"
  /\ (error = "ZeroDivisionError") =>
       /\ batches = <<>>
       /\ pc = "failed"
       /\ ~Printed
       /\ events[Len(events)] = <<"evaluate", SplitName[split]>>
       /\ [i \in 1 .. Len(files) |-> files[i].path] = SubSeq(SavePath, 1, split - 1)

\* C5: a split without samples ends evaluate in ZeroDivisionError: no
\* metrics block is printed, the run is over (no step follows), the image of
\* that split is not saved and the images of the earlier splits are.
C5_EmptySplitAborts == [](C5_State) /\ [][pc # "failed"]_vars

C5_Witness ==
  /\ error = "ZeroDivisionError"
  /\ split = 3
  /\ Len(files) = 2

\* ------------------------------------------------------------ C6
\* C6: in every call of evaluate, whatever was evaluated before it, the
\* counters, the label lists and the printed metrics are those of the
\* batches of this call alone, computed from counters at zero.
C6_Deterministic ==
  /\ (pc = "loop" /\ batches = <<>>) => (ev = Reset /\ ~Printed)
  /\ (pc = "draw") =>
       \E f \in {Fold(Reset, batches)} :
         /\ ev = f
         /\ report = Metrics(f)

C6_Witness ==
  /\ split = 3
  /\ pc = "draw"
  /\ Len(batches) = 2
  /\ Printed

\* ------------------------------------------------------------ C7
Squeeze(inputs) == [b \in 1 .. Len(inputs) |-> inputs[b][1]]

\* C7: with the flag on, the scores of every sample of a batch are the
\* equal-weight mean of the scores of that sample's own crops; with one crop
\* the scores, and with them the loss, the counts and the predictions of the
\* batch, are those of the path without the flag on the same images.
C7_CropAverage ==
  (Ncrop /\ InCall /\ batches # <<>>) =>
    \E last \in {batches[Len(batches)]} :
      /\ outputs = [b \in 1 .. Len(last.inputs) |-> MeanOfCrops(last.inputs[b])]
      /\ (ncrops = 1) =>
           /\ outputs = Forward(FALSE, Squeeze(last.inputs))
           /\ BatchStep(Reset, last, TRUE, topk_ties)
                = BatchStep(Reset, [inputs |-> Squeeze(last.inputs),
                                    labels |-> last.labels], FALSE, topk_ties)

C7_Witness ==
  /\ Ncrop
  /\ ncrops = 1
  /\ pc = "loop"
  /\ Len(batches) = 1
  /\ Len(batches[1].labels) = 2
  /\ batches[1].inputs[1] # batches[1].inputs[2]

\* ------------------------------------------------------------ C8
BatchLosses(data) ==
  [b \in 1 .. Len(data.labels) |->
     SampleLoss(SampleScores(data.inputs[b]), data.labels[b])]

SumOfBatchMeans ==
  SumRat([q \in 1 .. Len(batches) |->
            RatDivInt(SumRat(BatchLosses(batches[q])), Len(batches[q].labels))])

TrueMeanLoss ==
  RatDivInt(SumRat([q \in 1 .. Len(batches) |-> SumRat(BatchLosses(batches[q]))]),
            ev.n_samples)

SameBatchSizes ==
  \A q \in 1 .. Len(batches) : Len(batches[q].labels) = Len(batches[1].labels)

\* C8: the printed loss is the sum of the batch means divided by the number
\* of samples, and when all batches have the same size it is the mean of the
\* per-sample losses.
C8_LossIsSampleMean ==
  (pc = "draw" /\ Printed) =>
    /\ report.loss = RatDivInt(SumOfBatchMeans, ev.n_samples)
    /\ SameBatchSizes => report.loss = TrueMeanLoss

\* The first half of C8 alone.
C8_LossIsSumOfMeans ==
  (pc = "draw" /\ Printed) =>
    report.loss = RatDivInt(SumOfBatchMeans, ev.n_samples)

\* ------------------------------------------------------------ C9
CorrectK(S, k) == Cardinality({i \in 1 .. Len(S) : RankOf(S[i].scores, S[i].label) < k})

\* C9: for k = 1, 2 the count is the number of samples seen whose label is
\* among the k highest-scored classes of that sample's scores, and the
\* printed accuracy is 100 * count / N, between 0 and 100.
C9_Accuracy ==
  InCall =>
    \E S \in {Scored} :
      /\ ev.correct_count1 = CorrectK(S, 1)
      /\ ev.correct_count2 = CorrectK(S, 2)
      /\ ev.correct_count1 <= Len(S)
      /\ ev.correct_count2 <= Len(S)
      /\ Printed =>
           /\ report.acc1 = Rat(100 * CorrectK(S, 1), Len(S))
           /\ report.acc2 = Rat(100 * CorrectK(S, 2), Len(S))
           /\ RatLeq(Zero, report.acc1) /\ RatLeq(report.acc1, RatInt(100))
           /\ RatLeq(Zero, report.acc2) /\ RatLeq(report.acc2, RatInt(100))

C9_Witness ==
  /\ Printed
  /\ report.acc1 = <<0, 1>>
  /\ report.acc2 = <<50, 1>>

\* ------------------------------------------------------------ C10
CountsAgree ==
  /\ ev.correct_count1 = Matches(ev.y_pred, ev.y_gt)
  /\ Printed =>
       /\ report.precision = RatDivInt(report.acc1, 100)
       /\ report.recall = RatDivInt(report.acc1, 100)
       /\ report.f1 = RatDivInt(report.acc1, 100)

\* C10 as claimed: after any sequence of batches, ties for the highest score
\* included, the top-1 count is the number of positions where the predicted
\* list equals the ground-truth list, and the printed precision, recall and
\* F1 are the printed top-1 accuracy divided by 100.
C10_CountsAgreeAlways == InCall => CountsAgree

\* C10 amended: the same, for the runs in which no sample seen has two
\* classes tied for its highest score.
C10_CountsAgreeWithoutTies ==
  (InCall /\ \A i \in 1 .. Len(Scored) : NoTopTie(Scored[i].scores)) => CountsAgree

C10_Witness ==
  /\ Printed
  /\ ev.n_samples = 2
  /\ ev.correct_count1 = 1
  /\ \A i \in 1 .. Len(Scored) : NoTopTie(Scored[i].scores)

====
